---------------------------- MODULE Spec2Model ----------------------------
(***************************************************************************)
(* A model of the quasar node (F483/goquasar): the subscription table, the *)
(* event router with its read/write lock and observability taps, the       *)
(* update ingester, the filter propagator, the expiration sweeper and the  *)
(* Start/Stop lifecycle.                                                   *)
(*                                                                         *)
(* The node is one object; its fields are the variables below.  Each part  *)
(* of the node is exercised by its own specification (SpecSub, SpecRoute,  *)
(* SpecPeers, SpecLife, SpecIngest, SpecPropagate, SpecForward, SpecSink), *)
(* each of which leaves the fields it does not touch alone.                *)
(***************************************************************************)
EXTENDS Naturals, Integers, Sequences, FiniteSets, TLC

VARIABLES
    subscribers,   \* Node.subscribers: digest -> sequence of io.Writer
    topics,        \* Node.topics: digest -> topic bytes
    caller,        \* what the API caller did last (Subscribe / Unsubscribe pair)
    history,       \* Node.history: the (digest, payload) pairs witnessed
    peers,         \* Node.peers: pubkey -> peerData (filters, timestamps)
    connected,     \* the peers the overlay reports as connected
    cfg,           \* Node.cfg
    logger,        \* Node.log: "nil", or a Logger whose channels are "read" or "unread"
    call,          \* a Subscribe / Unsubscribe call waiting for mutex.Lock()
    rt,            \* the route tasks spawned so far (go n.route(e))
    now,           \* the wall clock, in milliseconds
    ut,            \* the processUpdate tasks in flight (go n.processUpdate(u))
    swept,         \* what removeExpiredPeers found and removed, when it ran last
    crashed,       \* a slice index out of range has panicked
    net,           \* the overlay transport: "down" or "up" (n.net.start / stop)
    loops,         \* dispatchInput, propagateFilters, expiredPeerGC: "none", "run", "ended"
    stopPc,        \* where the caller of Stop() is
    inflight,      \* transient tasks spawned by the loops and not finished yet
    it,            \* the processUpdate tasks in dispatch order, with what each did
    su             \* the sendUpdates task of one propagation tick

subVars == <<subscribers, topics, caller>>

routeVars == <<history, peers, connected, cfg, logger, call, rt>>

peerVars == <<now, ut, swept, crashed>>

lifeVars == <<net, loops, stopPc, inflight>>

ingestVars == <<it, su>>

vars == <<subscribers, topics, caller, history, peers, connected, cfg, logger, call, rt,
          now, ut, swept, crashed, net, loops, stopPc, inflight, it, su>>

---------------------------------------------------------------------------
(* Input domains and bounds.                                               *)

Topics == {"news", "rare"}          \* topic byte strings
Sinks == {"s1", "s2"}               \* io.Writer identities
Nil == "nil"                        \* the nil io.Writer
Receivers == Sinks \cup {Nil}

MaxSinks == 3                       \* longest sink sequence kept per topic

Msgs == {"hello"}                   \* payloads
Peers == {"P1", "P2"}               \* neighbor pubkeys
SelfId == "N"                       \* n.net.id()
NoDigest == <<"nil", "">>             \* a nil topicDigest pointer of a received event

FiltersDepth == 3                   \* cfg.FiltersDepth (D)
FilterBytes == 2                    \* cfg.FiltersM / 8
FiltersK == 2                       \* cfg.FiltersK
MaxTTL == 2                         \* largest ttl configured or received
MaxRoutes == 2                      \* route tasks spawned in one run
MaxRouteSinks == 2                  \* longest sink sequence while routing

FiltersM == 8 * FilterBytes         \* cfg.FiltersM

NoPending == [op |-> "none", topic |-> "", sink |-> Nil]

MaxTime == 2                        \* the clock stops here
MaxUpdates == 1                     \* processUpdate tasks in flight
FilterFreshness == 1                \* cfg.FilterFreshness, in clock ticks

NoSweep == [ran |-> FALSE, before |-> {}, expired |-> {}, after |-> {}]

MaxInflight == 2                    \* transient tasks of one kind in flight

LoopNames == {"dispatchInput", "propagateFilters", "expiredPeerGC"}
TaskNames == {"processUpdate", "route", "sendUpdates", "removeExpiredPeers"}
NoLoops == [l \in LoopNames |-> "none"]
NoTasks == [t \in TaskNames |-> 0]

NoSend == [pc |-> "idle", subs |-> {}, table |-> <<>>, conn |-> {}, filters |-> <<>>,
           sent |-> {}]

MaxIngest == 2                      \* processUpdate tasks of one behaviour

NoEntry == [filters |-> <<>>, timestamps |-> <<>>]

---------------------------------------------------------------------------
(* Helpers over Go maps (partial functions) and slices (sequences).        *)

MapPut(m, k, v) == [x \in DOMAIN m \cup {k} |-> IF x = k THEN v ELSE m[x]]

MapDelete(m, k) == [x \in DOMAIN m \ {k} |-> m[x]]

EmptyMap == [x \in {} |-> 0]

Range(s) == {s[i] : i \in DOMAIN s}

Count(s, v) == Cardinality({i \in DOMAIN s : s[i] = v})

\* append(s[:i], s[i+1:]...) with a 0-based i: drop element i+1 of the sequence
RemoveAt(s, i) == [j \in 1..(Len(s) - 1) |-> IF j < i THEN s[j] ELSE s[j + 1]]

\* hash160 is a collision-resistant digest: distinct inputs, distinct digests,
\* and a digest is never the input itself.
hash160(b) == <<"h160", b>>

Digests == {hash160(t) : t \in Topics}

---------------------------------------------------------------------------
(* The subscription table: Subscribe, Unsubscribe, Subscribers,            *)
(* Subscriptions.  Each runs wholly under the node's lock, so each is one  *)
(* step.                                                                   *)

\* Subscribe that replaces the sink sequence instead of appending to it.
SubscribeTablesReplace(subs, tops, topic, receiver) ==
    LET digest == hash160(topic) IN
    IF digest \notin DOMAIN subs
    THEN [subscribers |-> MapPut(subs, digest, <<receiver>>),
          topics |-> MapPut(tops, digest, topic)]
    ELSE [subscribers |-> subs, topics |-> tops]

\* The tables after Subscribe(topic, receiver).
SubscribeTables(subs, tops, topic, receiver) ==
    LET digest == hash160(topic) IN
    IF digest \notin DOMAIN subs
    THEN \* new subscription
         [subscribers |-> MapPut(subs, digest, <<receiver>>),
          topics |-> MapPut(tops, digest, topic)]
    ELSE \* append to existing subscribers
         [subscribers |-> MapPut(subs, digest, Append(subs[digest], receiver)),
          topics |-> tops]

\* The first index (1-based) of receiver in receivers, 0 when absent.
FirstIndex(receivers, receiver) ==
    IF receiver \in Range(receivers)
    THEN CHOOSE i \in DOMAIN receivers :
            /\ receivers[i] = receiver
            /\ \A j \in 1..(i - 1) : receivers[j] # receiver
    ELSE 0

\* Unsubscribe that forgets to drop the key when the last sink leaves.
UnsubscribeTablesKeepEmpty(subs, tops, topic, receiver) ==
    LET digest == hash160(topic)
        ok == digest \in DOMAIN subs
        i == IF ok /\ receiver # Nil THEN FirstIndex(subs[digest], receiver) ELSE 0
        subs1 == IF i > 0 THEN MapPut(subs, digest, RemoveAt(subs[digest], i)) ELSE subs
    IN  IF ok /\ receiver = Nil
        THEN [subscribers |-> MapDelete(subs1, digest), topics |-> MapDelete(tops, digest)]
        ELSE [subscribers |-> subs1, topics |-> tops]

\* Unsubscribe that drops the topic whenever the sink was found.
UnsubscribeTablesDropAll(subs, tops, topic, receiver) ==
    LET digest == hash160(topic)
        ok == digest \in DOMAIN subs
    IN  IF ok /\ (receiver = Nil \/ receiver \in Range(subs[digest]))
        THEN [subscribers |-> MapDelete(subs, digest), topics |-> MapDelete(tops, digest)]
        ELSE [subscribers |-> subs, topics |-> tops]

\* The tables after Unsubscribe(topic, receiver).
UnsubscribeTables(subs, tops, topic, receiver) ==
    LET digest == hash160(topic)
        ok == digest \in DOMAIN subs
        \* remove specific message receiver: the first equal occurrence
        i == IF ok /\ receiver # Nil THEN FirstIndex(subs[digest], receiver) ELSE 0
        subs1 == IF i > 0 THEN MapPut(subs, digest, RemoveAt(subs[digest], i)) ELSE subs
    IN  \* remove sub key if no receiver provided or no receiver remaining
        IF ok /\ (receiver = Nil \/ Len(subs1[digest]) = 0)
        THEN [subscribers |-> MapDelete(subs1, digest), topics |-> MapDelete(tops, digest)]
        ELSE [subscribers |-> subs1, topics |-> tops]

\* Subscribers(topic): a copy of the sink sequence, empty when not subscribed.
Subscribers(topic) ==
    LET digest == hash160(topic) IN
    IF digest \in DOMAIN subscribers THEN subscribers[digest] ELSE <<>>

\* Subscriptions(): the topic bytes recorded, in map order (so: as a set).
SubscriptionsOf(tops) == {tops[d] : d \in DOMAIN tops}

Subscriptions == SubscriptionsOf(topics)

NoCall == [phase |-> "none", topic |-> "", sink |-> Nil, subs0 |-> {}, n0 |-> 0]

\* Subscribe(topic, receiver) called and returned.
Subscribe(topic, receiver) ==
    /\ Len(Subscribers(topic)) < MaxSinks
    /\ LET r == SubscribeTables(subscribers, topics, topic, receiver) IN
        /\ subscribers' = r.subscribers
        /\ topics' = r.topics
    /\ caller' = [phase |-> "subscribed", topic |-> topic, sink |-> receiver,
                  subs0 |-> Subscriptions,
                  n0 |-> Count(Subscribers(topic), receiver)]
    /\ UNCHANGED <<routeVars, peerVars, lifeVars, ingestVars>>

\* Unsubscribe(topic, receiver) called and returned.
Unsubscribe(topic, receiver) ==
    /\ LET r == UnsubscribeTables(subscribers, topics, topic, receiver) IN
        /\ subscribers' = r.subscribers
        /\ topics' = r.topics
    /\ caller' = IF /\ caller.phase = "subscribed"
                    /\ caller.topic = topic
                    /\ caller.sink = receiver
                 THEN [caller EXCEPT !.phase = "unsubscribed"]
                 ELSE NoCall
    /\ UNCHANGED <<routeVars, peerVars, lifeVars, ingestVars>>

---------------------------------------------------------------------------
(* Bloom filters.  A filter is FilterBytes bytes; a byte is the set of its  *)
(* set bits (0..7).  The K bit positions of a digest come from two hashes   *)
(* of it: position j is (h1 + j * h2) mod M.                                *)

Hash1(d) ==
    CASE d = hash160("news") -> 0
      [] d = hash160("rare") -> 3
      [] d = hash160("P1") -> 5
      [] d = hash160("P2") -> 3
      [] OTHER -> 1

Hash2(d) ==
    CASE d = hash160("news") -> 9
      [] d = hash160("rare") -> 9
      [] d = hash160("P1") -> 4
      [] d = hash160("P2") -> 11
      [] OTHER -> 6

bitPositions(d) == {(Hash1(d) + j * Hash2(d)) % FiltersM : j \in 0..(FiltersK - 1)}

newFilter == [i \in 1..FilterBytes |-> {}]

newFilters == [i \in 1..FiltersDepth |-> newFilter]

filterInsertDigest(f, d) ==
    [i \in DOMAIN f |-> f[i] \cup {b % 8 : b \in {q \in bitPositions(d) : (q \div 8) + 1 = i}}]

RECURSIVE filterInsertAll(_, _)
filterInsertAll(f, ds) ==
    IF ds = {} THEN f
    ELSE LET d == CHOOSE x \in ds : TRUE
         IN  filterInsertAll(filterInsertDigest(f, d), ds \ {d})

newFilterFromDigests(ds) == filterInsertAll(newFilter, ds)

filterContainsDigest(f, d) ==
    \A b \in bitPositions(d) :
        /\ (b \div 8) + 1 \in DOMAIN f
        /\ (b % 8) \in f[(b \div 8) + 1]

filterContains(f, data) == filterContainsDigest(f, hash160(data))

---------------------------------------------------------------------------
(* Events, taps and the route tasks.                                        *)

\* ttl is an unsigned integer: 0 - 1 wraps to the largest value.  The model
\* keeps 16 bits of it.
Uint == 2 ^ 16

newEvent(topic, message, ttl) ==
    [topicDigest |-> hash160(topic), message |-> message, ttl |-> ttl,
     publishers |-> <<>>]

validEvent(e) == e.topicDigest # NoDigest /\ e.ttl # 0

\* A tap: l.X <- record is started only when a Logger is installed.
Emit(taps, name, target) ==
    IF logger = "nil" THEN taps ELSE Append(taps, <<name, target>>)

NewTask(origin, e) ==
    [pc |-> "rlock", origin |-> origin, e |-> e, ttl0 |-> e.ttl,
     pubs0 |-> e.publishers, receivers |-> <<>>, written |-> <<>>,
     sentTo |-> {}, taps |-> <<>>, branch |-> "",
     hadSub |-> {}, unsub |-> FALSE]

\* The tasks that hold the read lock.
Readers == {r \in DOMAIN rt : rt[r].pc \in {"witness", "eventDeliver", "deliver", "write"}}

\* Publish(topic, message): build the event, tap, spawn route.
Publish(topic, message) ==
    /\ Len(rt) < MaxRoutes
    /\ LET event == newEvent(topic, message, cfg.DefaultEventTTL)
           t == NewTask("publish", event)
       IN  rt' = Append(rt, [t EXCEPT !.taps = Emit(<<>>, "EventsPublished", Nil),
                                      !.hadSub = Range(Subscribers(topic))])
    /\ UNCHANGED <<subVars, history, peers, connected, cfg, logger, call, peerVars, lifeVars, ingestVars>>

\* dispatchInput, event case: a valid event is tapped and routed.
DispatchEvent(e) ==
    /\ Len(rt) < MaxRoutes
    /\ IF validEvent(e)
       THEN rt' = Append(rt, [NewTask("overlay", e) EXCEPT
                                  !.taps = Emit(<<>>, "EventsReceived", Nil)])
       ELSE rt' = rt
    /\ UNCHANGED <<subVars, history, peers, connected, cfg, logger, call, peerVars, lifeVars, ingestVars>>

\* route: n.mutex.RLock().  A writer waiting for Lock() holds new readers back.
RouteRLock(r) ==
    /\ rt[r].pc = "rlock"
    /\ call = NoPending
    /\ rt' = [rt EXCEPT ![r].pc = "witness"]
    /\ UNCHANGED <<subVars, history, peers, connected, cfg, logger, call, peerVars, lifeVars, ingestVars>>

\* isDuplicate: the item witnessed is digest ++ message.
witnessItem(e) == <<e.topicDigest, e.message>>

\* history.Witness(x): true if x is already known, inserts x otherwise.  It is
\* one operation of the history (the library serializes its callers).
Witness(h, x) == [dup |-> x \in h, history |-> h \cup {x}]

\* isDuplicate that only looks the item up and never records it.
isDuplicateForgetful(h, e) == [dup |-> witnessItem(e) \in h, history |-> h]

\* isDuplicate: n.history.Witness(append(e.topicDigest[:20], e.message...)).
isDuplicate(h, e) == Witness(h, witnessItem(e))

\* A level-i filter f qualifies for e: it holds the topic and no publisher.
Qualifies(f, e) ==
    /\ filterContainsDigest(f, e.topicDigest)
    /\ \A j \in DOMAIN e.publishers : ~filterContains(f, e.publishers[j])

\* randomPeer: any connected peer, nil when there is none.
randomPeer(conn) == IF conn = {} THEN {Nil} ELSE conn

\* The forwarding that takes any peer with a qualifying filter, whatever
\* its level.
forwardOutcomesAnyLevel(e, prs, conn) ==
    LET ttl == (e.ttl + Uint - 1) % Uint
        well == {p \in DOMAIN prs :
                    \E i \in 1..FiltersDepth : Qualifies(prs[p].filters[i], e)}
    IN  IF ttl = 0
        THEN {[branch |-> "ttl", to |-> Nil, ttl |-> ttl]}
        ELSE IF well # {}
        THEN {[branch |-> "well", to |-> p, ttl |-> ttl] : p \in well}
        ELSE {[branch |-> IF p = Nil THEN "none" ELSE "random", to |-> p, ttl |-> ttl] :
                 p \in randomPeer(conn)}

\* The forwarding without negative-route avoidance: a filter that holds the
\* topic qualifies, whatever publishers it holds.
forwardOutcomesNoNegRoute(e, prs, conn) ==
    LET ttl == (e.ttl + Uint - 1) % Uint
        levels == {i \in 0..(FiltersDepth - 1) :
                      \E p \in DOMAIN prs : filterContainsDigest(prs[p].filters[i + 1],
                                                                 e.topicDigest)}
        first == CHOOSE i \in levels : \A k \in levels : i <= k
    IN  IF ttl = 0
        THEN {[branch |-> "ttl", to |-> Nil, ttl |-> ttl]}
        ELSE IF levels # {}
        THEN {[branch |-> "well", to |-> p, ttl |-> ttl] :
                 p \in {q \in DOMAIN prs :
                           filterContainsDigest(prs[q].filters[first + 1], e.topicDigest)}}
        ELSE {[branch |-> IF p = Nil THEN "none" ELSE "random", to |-> p, ttl |-> ttl] :
                 p \in randomPeer(conn)}

\* route, from the ttl decay on: the outcomes the map order and the random
\* pick allow.  Each is the branch taken, the peer sent to and the ttl left.
forwardOutcomes(e, prs, conn) ==
    LET ttl == (e.ttl + Uint - 1) % Uint
        levels == {i \in 0..(FiltersDepth - 1) :
                      \E p \in DOMAIN prs : Qualifies(prs[p].filters[i + 1], e)}
        first == CHOOSE i \in levels : \A k \in levels : i <= k
    IN  IF ttl = 0
        THEN {[branch |-> "ttl", to |-> Nil, ttl |-> ttl]}
        ELSE IF levels # {}
        THEN {[branch |-> "well", to |-> p, ttl |-> ttl] :
                 p \in {q \in DOMAIN prs : Qualifies(prs[q].filters[first + 1], e)}}
        ELSE {[branch |-> IF p = Nil THEN "none" ELSE "random", to |-> p, ttl |-> ttl] :
                 p \in randomPeer(conn)}

TapOf(branch) ==
    CASE branch = "ttl" -> "EventsDropTTL"
      [] branch = "well" -> "EventsRouteWell"
      [] OTHER -> "EventsRouteRandom"

\* route, up to the first call that can block: the duplicate check (a
\* duplicate is tapped and dropped), the local match, and without one the ttl
\* decay and the forwarding, then RUnlock.
RouteDecide(r) ==
    /\ rt[r].pc = "witness"
    /\ LET w == isDuplicate(history, rt[r].e) IN
        /\ history' = w.history
        /\ IF w.dup
           THEN rt' = [rt EXCEPT ![r].pc = "done", ![r].branch = "duplicate",
                                 ![r].taps = Emit(@, "EventsDropDuplicate", Nil)]
           ELSE IF rt[r].e.topicDigest \in DOMAIN subscribers
           THEN rt' = [rt EXCEPT ![r].pc = "eventDeliver",
                                 ![r].branch = "local",
                                 ![r].receivers = subscribers[rt[r].e.topicDigest]]
           ELSE \E o \in forwardOutcomes(rt[r].e, peers, connected) :
                    rt' = [rt EXCEPT ![r].pc = "done",
                                     ![r].branch = o.branch,
                                     ![r].e.ttl = o.ttl,
                                     ![r].sentTo = IF o.to = Nil THEN {} ELSE {o.to},
                                     ![r].taps = IF o.branch = "none" THEN @
                                                 ELSE Emit(@, TapOf(o.branch), o.to)]
    /\ UNCHANGED <<subVars, peers, connected, cfg, logger, call, peerVars, lifeVars, ingestVars>>

\* route: n.log.eventDeliver(n, e), called in line: the send on the unbuffered
\* EventsDeliver channel returns only when a receiver takes the record.
RouteEventDeliver(r) ==
    /\ rt[r].pc = "eventDeliver"
    /\ logger # "unread"
    /\ rt' = [rt EXCEPT ![r].pc = "deliver",
                        ![r].taps = Emit(@, "EventsDeliver", Nil)]
    /\ UNCHANGED <<subVars, history, peers, connected, cfg, logger, call, peerVars, lifeVars, ingestVars>>

\* Sinks whose Write does not return: one that blocks (a full pipe, a peer
\* that stopped reading), one that calls Unsubscribe on the node it is
\* subscribed to and so waits for n.mutex.Lock() inside route's read lock.
BlockingSinks == {"blk"}
ReentrantSinks == {"re"}

\* deliver that gives up at the first sink whose Write fails.
deliverStopOnError(receivers, failing) ==
    LET bad == {i \in DOMAIN receivers : receivers[i] \in failing}
        stop == IF bad = {} THEN Len(receivers)
                ELSE CHOOSE i \in bad : \A k \in bad : i <= k
    IN  SubSeq(receivers, 1, stop)

\* deliver: receiver.Write(e.message) for each receiver, results ignored.
deliver(receivers, failing) == receivers

FailingSinks == {"s2"}              \* sinks whose Write returns an error

\* route: append the node's id to the publishers, send to every connected peer.
directFlood(e, id, conn) ==
    [e |-> [e EXCEPT !.publishers = Append(@, id)], to |-> conn]

RECURSIVE EmitEach(_, _, _)
EmitEach(taps, name, targets) ==
    IF targets = {} THEN taps
    ELSE LET p == CHOOSE x \in targets : TRUE
         IN  EmitEach(Emit(taps, name, p), name, targets \ {p})

\* route: n.deliver(receivers, e), the direct flood from a subscriber, RUnlock.
RouteDeliver(r) ==
    /\ rt[r].pc = "deliver"
    /\ Range(rt[r].receivers) \cap (BlockingSinks \cup ReentrantSinks) = {}
    /\ LET f == directFlood(rt[r].e, SelfId, connected) IN
        rt' = [rt EXCEPT ![r].pc = "done",
                         ![r].written = deliver(rt[r].receivers, FailingSinks),
                         ![r].e = f.e,
                         ![r].sentTo = f.to,
                         ![r].taps = EmitEach(@, "EventsRouteDirect", f.to)]
    /\ UNCHANGED <<subVars, history, peers, connected, cfg, logger, call, peerVars, lifeVars, ingestVars>>

\* route: n.deliver(receivers, e) reaches a sink whose Write does not return.
\* The sinks before it were written; route stays inside receiver.Write with
\* the read lock held.  A re-entrant sink has called Unsubscribe by then: its
\* call waits for the write lock like any other.
RouteSinkWrite(r) ==
    /\ rt[r].pc = "deliver"
    /\ Range(rt[r].receivers) \cap (BlockingSinks \cup ReentrantSinks) # {}
    /\ LET stuck == {i \in DOMAIN rt[r].receivers :
                        rt[r].receivers[i] \in BlockingSinks \cup ReentrantSinks}
           i == CHOOSE x \in stuck : \A y \in stuck : x <= y
           sink == rt[r].receivers[i]
       IN  /\ rt' = [rt EXCEPT ![r].pc = "write",
                               ![r].written = SubSeq(rt[r].receivers, 1, i - 1)]
           /\ call' = IF sink \in ReentrantSinks /\ call = NoPending
                      THEN [op |-> "Unsubscribe", topic |-> "news", sink |-> sink]
                      ELSE call
    /\ UNCHANGED <<subVars, history, peers, connected, cfg, logger, peerVars, lifeVars,
                   ingestVars>>

\* Subscribe / Unsubscribe called while routing goes on: the caller waits at
\* n.mutex.Lock().
SubscribeCall(topic, receiver) ==
    /\ call = NoPending
    /\ Len(Subscribers(topic)) < MaxRouteSinks
    /\ call' = [op |-> "Subscribe", topic |-> topic, sink |-> receiver]
    /\ UNCHANGED <<subVars, history, peers, connected, cfg, logger, rt, peerVars, lifeVars, ingestVars>>

UnsubscribeCall(topic, receiver) ==
    /\ call = NoPending
    /\ call' = [op |-> "Unsubscribe", topic |-> topic, sink |-> receiver]
    /\ UNCHANGED <<subVars, history, peers, connected, cfg, logger, rt, peerVars, lifeVars, ingestVars>>

\* Lock() is granted when no reader holds the mutex.
LockFree(readers) == readers = {}

\* The waiting call gets the lock, changes the tables, unlocks and returns.
LockedCall ==
    /\ call # NoPending
    /\ LockFree(Readers)
    /\ LET r == IF call.op = "Subscribe"
                THEN SubscribeTables(subscribers, topics, call.topic, call.sink)
                ELSE UnsubscribeTables(subscribers, topics, call.topic, call.sink)
       IN  /\ subscribers' = r.subscribers
           /\ topics' = r.topics
    /\ rt' = [r \in DOMAIN rt |->
                IF /\ call.op = "Unsubscribe"
                   /\ rt[r].e.topicDigest = hash160(call.topic)
                   /\ rt[r].pc = "rlock"
                THEN [rt[r] EXCEPT !.unsub = TRUE] ELSE rt[r]]
    /\ call' = NoPending
    /\ UNCHANGED <<caller, history, peers, connected, cfg, logger, peerVars, lifeVars, ingestVars>>

RouteStep(r) ==
    \/ RouteRLock(r)
    \/ RouteDecide(r)
    \/ RouteEventDeliver(r)
    \/ RouteDeliver(r)

\* Peer filter tables the node can hold (each level below the top one is
\* whatever the peer last sent).
EmptyData == [filters |-> newFilters, timestamps |-> [i \in 1..FiltersDepth |-> 0]]

DataWith(level, ds) ==
    [EmptyData EXCEPT !.filters[level + 1] = newFilterFromDigests(ds)]

\* The table of scenario S4: P1's level 0 holds "rare", P2's filters are empty.
TableS4 ==
    [p \in Peers |-> IF p = "P1" THEN DataWith(0, {hash160("rare")}) ELSE EmptyData]

RouteTopics == {"news"}             \* the topics subscribed to while routing

RouteEvents ==
    [topicDigest : {hash160("news"), NoDigest}, message : Msgs, ttl : {0, MaxTTL},
     publishers : {<<"P1">>}]

RouteInit ==
    /\ subscribers = EmptyMap
    /\ topics = EmptyMap
    /\ caller = NoCall
    /\ history = {}
    /\ peers = TableS4
    /\ connected \in {{"P1"}, Peers}
    /\ cfg = [DefaultEventTTL |-> MaxTTL]
    /\ logger \in {"nil", "read", "unread"}
    /\ call = NoPending
    /\ rt = <<>>
    /\ now = 0
    /\ ut = <<>>
    /\ swept = NoSweep
    /\ crashed = FALSE
    /\ net = "down"
    /\ loops = NoLoops
    /\ stopPc = "idle"
    /\ inflight = NoTasks
    /\ it = <<>>
    /\ su = NoSend

RouteNext ==
    \/ \E t \in Topics, m \in Msgs : Publish(t, m)
    \/ \E e \in RouteEvents : DispatchEvent(e)
    \/ \E r \in 1..MaxRoutes : r \in DOMAIN rt /\ RouteStep(r)
    \/ \E t \in RouteTopics, s \in Sinks : SubscribeCall(t, s)
    \/ \E t \in RouteTopics, s \in Receivers : UnsubscribeCall(t, s)
    \/ LockedCall

SpecRoute == RouteInit /\ [][RouteNext]_vars

\* Every spawned task is scheduled.  Unlock() admits the readers that waited
\* for the writer before the next writer gets in, so a task that can take the
\* read lock again and again does take it; a waiting Lock() is granted once
\* the readers have left.
RouteFairness ==
    /\ \A r \in 1..MaxRoutes : SF_vars(r \in DOMAIN rt /\ RouteStep(r))
    /\ WF_vars(LockedCall)

FairSpecRoute == SpecRoute /\ RouteFairness

---------------------------------------------------------------------------
(* The peer filter table: validUpdate, processUpdate, removeExpiredPeers.   *)

NilUpdate == [peer |-> Nil, index |-> 0, filter |-> <<>>, isNil |-> TRUE]

\* validUpdate that lets the top level through (index <= D-1).
validUpdateTopLevel(u) ==
    /\ ~u.isNil /\ u.peer # Nil
    /\ u.index <= FiltersDepth - 1
    /\ Len(u.filter) = FiltersM \div 8

\* validUpdate: not nil, a peer, index < D-1, len(filter) = M/8.
validUpdate(u) ==
    /\ ~u.isNil /\ u.peer # Nil
    /\ u.index < FiltersDepth - 1       \* top filter never propagated
    /\ Len(u.filter) = FiltersM \div 8

\* An overlay query that reports every peer as connected.
isConnectedAlways(p) == TRUE

isConnected(p) == p \in connected

makePeerTimestamp == now

\* dispatchInput, update case: a valid update gets its processUpdate task.
DispatchUpdate(u) ==
    /\ Len(ut) < MaxUpdates
    /\ ~crashed
    /\ ut' = IF validUpdate(u) THEN Append(ut, [pc |-> "check", u |-> u]) ELSE ut
    /\ swept' = NoSweep
    /\ UNCHANGED <<subVars, routeVars, now, crashed, lifeVars, ingestVars>>

\* processUpdate, before the lock: an update from a peer that is not connected
\* is ignored.
ProcessUpdateCheck(k) ==
    /\ k \in DOMAIN ut
    /\ ut[k].pc = "check"
    /\ ~crashed
    /\ ut' = IF isConnected(ut[k].u.peer)
             THEN [ut EXCEPT ![k].pc = "lock"]
             ELSE RemoveAt(ut, k)
    /\ swept' = NoSweep
    /\ UNCHANGED <<subVars, routeVars, now, crashed, lifeVars, ingestVars>>

\* processUpdate that stamps every level of the entry, not only the one it
\* writes.
installUpdateTouchAll(prs, u, t) ==
    LET data == IF u.peer \in DOMAIN prs THEN prs[u.peer]
                ELSE [filters |-> newFilters,
                      timestamps |-> [i \in 1..FiltersDepth |-> 0]]
    IN  [peers |-> MapPut(prs, u.peer,
                      [filters |-> [data.filters EXCEPT ![u.index + 1] = u.filter],
                       timestamps |-> [i \in 1..FiltersDepth |-> t]]),
         crashed |-> FALSE]

\* processUpdate under the lock: the entry is created when absent, then the
\* level and its timestamp are overwritten.  An index outside the entry panics
\* after the entry was stored.
installUpdate(prs, u, t) ==
    LET data == IF u.peer \in DOMAIN prs THEN prs[u.peer]
                ELSE [filters |-> newFilters,
                      timestamps |-> [i \in 1..FiltersDepth |-> 0]]
    IN  IF u.index + 1 \in DOMAIN data.filters
        THEN [peers |-> MapPut(prs, u.peer,
                           [filters |-> [data.filters EXCEPT ![u.index + 1] = u.filter],
                            timestamps |-> [data.timestamps EXCEPT ![u.index + 1] = t]]),
              crashed |-> FALSE]
        ELSE [peers |-> MapPut(prs, u.peer, data), crashed |-> TRUE]

ProcessUpdateInstall(k) ==
    /\ k \in DOMAIN ut
    /\ ut[k].pc = "lock"
    /\ ~crashed
    /\ LET r == installUpdate(peers, ut[k].u, makePeerTimestamp) IN
        /\ peers' = r.peers
        /\ crashed' = r.crashed
    /\ ut' = RemoveAt(ut, k)
    /\ swept' = NoSweep
    /\ UNCHANGED <<subVars, history, connected, cfg, logger, call, rt, now, lifeVars, ingestVars>>

\* peerDataExpired: every level's timestamp is older than the freshness.
peerDataExpired(data, t) ==
    \A i \in DOMAIN data.timestamps : t - data.timestamps[i] > FilterFreshness

Expired(prs, t) == {p \in DOMAIN prs : peerDataExpired(prs[p], t)}

\* removeExpiredPeers.  toRemove collects &peerId, the address of the one loop
\* variable of `for peerId, data := range n.peers`, once per expired entry; when
\* the loop ends that variable holds the key iterated last, so every pointer
\* of toRemove names that key, and the map order decides which key it is.
\* The result is the set of tables the map orders allow.
removeExpiredPeers(prs, t) ==
    IF Expired(prs, t) = {}
    THEN {prs}
    ELSE {MapDelete(prs, last) : last \in DOMAIN prs}

\* expiredPeerGC's tick: go n.removeExpiredPeers().
RemoveExpiredPeers ==
    /\ ~crashed
    /\ \E after \in removeExpiredPeers(peers, now) :
        /\ peers' = after
        /\ swept' = [ran |-> TRUE, before |-> DOMAIN peers,
                     expired |-> Expired(peers, now), after |-> DOMAIN after]
    /\ UNCHANGED <<subVars, history, connected, cfg, logger, call, rt, now, ut, crashed, lifeVars, ingestVars>>

Tick ==
    /\ now < MaxTime
    /\ now' = now + 1
    /\ swept' = NoSweep
    /\ UNCHANGED <<subVars, routeVars, ut, crashed, lifeVars, ingestVars>>

\* The overlay: peers come and go.
Connect(p) ==
    /\ p \notin connected
    /\ connected' = connected \cup {p}
    /\ swept' = NoSweep
    /\ UNCHANGED <<subVars, history, peers, cfg, logger, call, rt, now, ut, crashed, lifeVars, ingestVars>>

Disconnect(p) ==
    /\ p \in connected
    /\ connected' = connected \ {p}
    /\ swept' = NoSweep
    /\ UNCHANGED <<subVars, history, peers, cfg, logger, call, rt, now, ut, crashed, lifeVars, ingestVars>>

\* Filters a peer may send: all zero or holding "rare", one byte short, one
\* byte long.
FilterOfLen(n) == [i \in 1..n |-> {}]

UpdateFilters ==
    {newFilter, newFilterFromDigests({hash160("rare")}),
     FilterOfLen(FilterBytes - 1), FilterOfLen(FilterBytes + 1)}

Updates ==
    {NilUpdate} \cup
    [peer : Peers \cup {Nil}, index : 0..FiltersDepth, filter : UpdateFilters,
     isNil : {FALSE}]

PeersInit ==
    /\ subscribers = EmptyMap
    /\ topics = EmptyMap
    /\ caller = NoCall
    /\ history = {}
    /\ peers = EmptyMap
    /\ connected = Peers
    /\ cfg = [DefaultEventTTL |-> MaxTTL]
    /\ logger = "nil"
    /\ call = NoPending
    /\ rt = <<>>
    /\ now = 0
    /\ ut = <<>>
    /\ swept = NoSweep
    /\ crashed = FALSE
    /\ net = "down"
    /\ loops = NoLoops
    /\ stopPc = "idle"
    /\ inflight = NoTasks
    /\ it = <<>>
    /\ su = NoSend

PeersNext ==
    \/ \E u \in Updates : DispatchUpdate(u)
    \/ \E k \in 1..MaxUpdates : ProcessUpdateCheck(k)
    \/ \E k \in 1..MaxUpdates : ProcessUpdateInstall(k)
    \/ RemoveExpiredPeers
    \/ Tick
    \/ \E p \in Peers : Connect(p)
    \/ \E p \in Peers : Disconnect(p)

SpecPeers == PeersInit /\ [][PeersNext]_vars

---------------------------------------------------------------------------
(* Start, Stop and the three loops.  A loop is at its select whenever it is  *)
(* running: what it does between two selects is a go statement.  A send on   *)
(* an unbuffered stop channel and the loop's receive of it are one step.     *)

\* go f(): one more transient task of that kind.
Spawn(kind) ==
    /\ inflight[kind] < MaxInflight
    /\ inflight' = [inflight EXCEPT ![kind] = @ + 1]

\* Start: n.net.start(), three fresh stop channels, the three loops.
Start ==
    /\ stopPc \in {"idle", "returned"}
    /\ \A l \in LoopNames : loops[l] # "run"
    /\ net' = "up"
    /\ loops' = [l \in LoopNames |-> "run"]
    /\ stopPc' = "idle"
    /\ UNCHANGED <<subVars, routeVars, peerVars, inflight, ingestVars>>

\* dispatchInput's select took an update or an event that passed its check.
DispatchInput(kind) ==
    /\ loops["dispatchInput"] = "run"
    /\ kind \in {"processUpdate", "route"}
    /\ Spawn(kind)
    /\ UNCHANGED <<subVars, routeVars, peerVars, net, loops, stopPc, ingestVars>>

\* propagateFilters' select took the timer: go n.sendUpdates().
PropagateFilters ==
    /\ loops["propagateFilters"] = "run"
    /\ Spawn("sendUpdates")
    /\ UNCHANGED <<subVars, routeVars, peerVars, net, loops, stopPc, ingestVars>>

\* expiredPeerGC's select took the timer: go n.removeExpiredPeers().
ExpiredPeerGC ==
    /\ loops["expiredPeerGC"] = "run"
    /\ Spawn("removeExpiredPeers")
    /\ UNCHANGED <<subVars, routeVars, peerVars, net, loops, stopPc, ingestVars>>

\* A transient task runs to its end.
TaskDone(kind) ==
    /\ inflight[kind] > 0
    /\ inflight' = [inflight EXCEPT ![kind] = @ - 1]
    /\ UNCHANGED <<subVars, routeVars, peerVars, net, loops, stopPc, ingestVars>>

\* Stop that signals the dispatcher and the propagator only.
stopOrderNoGC(pc) ==
    CASE pc = "stopDispatcher" -> [loop |-> "dispatchInput", next |-> "stopPropagation"]
      [] pc = "stopPropagation" -> [loop |-> "propagateFilters", next |-> "returned"]
      [] OTHER -> [loop |-> "expiredPeerGC", next |-> "returned"]

\* Stop's three sends, in order: the loop each signals and what follows it.
stopOrder(pc) ==
    CASE pc = "stopDispatcher" -> [loop |-> "dispatchInput", next |-> "stopPropagation"]
      [] pc = "stopPropagation" -> [loop |-> "propagateFilters", next |-> "stopExpiredPeerGC"]
      [] OTHER -> [loop |-> "expiredPeerGC", next |-> "returned"]

\* Stop is called on a started node: n.net.stop(), then the first send.
Stop ==
    /\ stopPc = "idle"
    /\ \A l \in LoopNames : loops[l] = "run"
    /\ net' = "down"
    /\ stopPc' = "stopDispatcher"
    /\ UNCHANGED <<subVars, routeVars, peerVars, loops, inflight, ingestVars>>

\* The loop Stop is sending to takes the signal at its select and returns;
\* Stop goes on to its next send, or returns.
StopSignal ==
    /\ stopPc \in {"stopDispatcher", "stopPropagation", "stopExpiredPeerGC"}
    /\ LET o == stopOrder(stopPc) IN
        /\ loops[o.loop] = "run"
        /\ loops' = [loops EXCEPT ![o.loop] = "ended"]
        /\ stopPc' = o.next
    /\ UNCHANGED <<subVars, routeVars, peerVars, net, inflight, ingestVars>>

LifeInit ==
    /\ subscribers = EmptyMap
    /\ topics = EmptyMap
    /\ caller = NoCall
    /\ history = {}
    /\ peers = EmptyMap
    /\ connected = Peers
    /\ cfg = [DefaultEventTTL |-> MaxTTL]
    /\ logger = "nil"
    /\ call = NoPending
    /\ rt = <<>>
    /\ now = 0
    /\ ut = <<>>
    /\ swept = NoSweep
    /\ crashed = FALSE
    /\ net = "down"
    /\ loops = NoLoops
    /\ stopPc = "idle"
    /\ inflight = NoTasks
    /\ it = <<>>
    /\ su = NoSend

LifeNext ==
    \/ Start
    \/ \E kind \in {"processUpdate", "route"} : DispatchInput(kind)
    \/ PropagateFilters
    \/ ExpiredPeerGC
    \/ \E kind \in TaskNames : TaskDone(kind)
    \/ Stop
    \/ StopSignal

SpecLife == LifeInit /\ [][LifeNext]_vars

\* A select whose stop case is ready takes it sooner or later: the timers
\* fire only now and then, and among ready cases select picks at random.
FairSpecLife == SpecLife /\ WF_vars(StopSignal)

---------------------------------------------------------------------------
---------------------------------------------------------------------------
(* Ingestion and propagation together: processUpdate tasks that race for    *)
(* the lock with each other, with the sweeper and with sendUpdates.  Each   *)
(* task keeps what it did: its taps, what the overlay answered, the peer's  *)
(* entry before and after its write, and its place in the order of writes.  *)

EntryOf(prs, p) == IF p \in DOMAIN prs THEN prs[p] ELSE NoEntry

Installed == {k \in DOMAIN it : it[k].pc = "done" /\ it[k].at > 0}

\* The readers that hold n.mutex in this part: sendUpdates between its RLock
\* and its RUnlock.
SendReaders == IF su.pc = "merge" THEN {"sendUpdates"} ELSE {}

\* dispatchInput, update case: validUpdate, then go n.processUpdate(u).
IngestDispatch(u) ==
    /\ Len(it) < MaxIngest
    /\ validUpdate(u)
    /\ it' = Append(it, [pc |-> "check", u |-> u, taps |-> <<>>, conn |-> FALSE,
                         before |-> NoEntry, after |-> NoEntry, at |-> 0, t |-> 0])
    /\ UNCHANGED <<subVars, routeVars, peerVars, lifeVars, su>>

\* dispatchInput drops an update that fails validUpdate.
IngestDrop(u) ==
    /\ ~validUpdate(u)
    /\ UNCHANGED vars

\* processUpdate up to n.mutex.Lock(): the received tap, the overlay's answer;
\* a sender that is not connected gets the fail tap and the task returns.
IngestCheck(k) ==
    /\ k \in DOMAIN it
    /\ it[k].pc = "check"
    /\ LET received == Emit(it[k].taps, "UpdatesReceived", it[k].u.peer) IN
        it' = [it EXCEPT
                 ![k].conn = it[k].u.peer \in connected,
                 ![k].pc = IF isConnected(it[k].u.peer) THEN "lock" ELSE "done",
                 ![k].before = EntryOf(peers, it[k].u.peer),
                 ![k].after = EntryOf(peers, it[k].u.peer),
                 ![k].taps = IF isConnected(it[k].u.peer) THEN received
                             ELSE Emit(received, "UpdatesFail", it[k].u.peer)]
    /\ UNCHANGED <<subVars, routeVars, peerVars, lifeVars, su>>

\* processUpdate from Lock() to its return: the entry is created when absent,
\* the level and its timestamp are written, Unlock(), the success tap.
IngestInstall(k) ==
    /\ k \in DOMAIN it
    /\ it[k].pc = "lock"
    /\ LockFree(SendReaders)
    /\ LET r == installUpdate(peers, it[k].u, makePeerTimestamp) IN
        /\ ~r.crashed
        /\ peers' = r.peers
        /\ it' = [it EXCEPT
                    ![k].pc = "done",
                    ![k].before = EntryOf(peers, it[k].u.peer),
                    ![k].after = EntryOf(r.peers, it[k].u.peer),
                    ![k].at = Cardinality(Installed) + 1,
                    ![k].t = makePeerTimestamp,
                    ![k].taps = Emit(@, "UpdatesSuccess", it[k].u.peer)]
    /\ UNCHANGED <<subVars, history, connected, cfg, logger, call, rt, peerVars, lifeVars, su>>

\* The sweeper's tick while ingestion goes on: it waits for the lock too.
IngestSweep ==
    /\ LockFree(SendReaders)
    /\ RemoveExpiredPeers

\* filters[i][j] | data.filters[i-1][j], byte by byte.
orFilter(f, g) == [j \in DOMAIN f |-> f[j] \cup g[j]]

RECURSIVE mergeLevel(_, _, _)
mergeLevel(f, prs, level) ==
    IF DOMAIN prs = {} THEN f
    ELSE LET p == CHOOSE x \in DOMAIN prs : TRUE
         IN  mergeLevel(orFilter(f, prs[p].filters[level]), MapDelete(prs, p), level)

\* sendUpdates that merges every level of the peers, the top one included,
\* into the level of the same index.
localFiltersSameLevel(digests, id, prs) ==
    [i \in 1..FiltersDepth |->
        IF i = 1 THEN newFilterFromDigests(digests \cup {hash160(id)})
        ELSE mergeLevel(newFilter, prs, i)]

\* sendUpdates, the filters: level 0 from the subscriptions and the node's own
\* id, level i from the peers' levels i-1.
localFilters(digests, id, prs) ==
    [i \in 1..FiltersDepth |->
        IF i = 1 THEN newFilterFromDigests(digests \cup {hash160(id)})
        ELSE mergeLevel(newFilters[i], prs, i - 1)]

\* sendUpdates, the sends: every connected peer gets the levels 0..D-2.
updatesToSend(filters, conn) ==
    {<<id, i, filters[i + 1]>> : id \in conn, i \in 0..(FiltersDepth - 2)}

\* sendUpdates: n.mutex.RLock().
SendUpdatesRLock ==
    /\ su.pc = "idle"
    /\ su' = [NoSend EXCEPT !.pc = "merge", !.subs = DOMAIN subscribers, !.table = peers]
    /\ UNCHANGED <<subVars, routeVars, peerVars, lifeVars, it>>

\* sendUpdates from the snapshot of its inputs to RUnlock().
SendUpdatesRun ==
    /\ su.pc = "merge"
    /\ LET filters == localFilters(DOMAIN subscribers, SelfId, peers) IN
        su' = [su EXCEPT !.pc = "done", !.conn = connected, !.filters = filters,
                         !.sent = updatesToSend(filters, connected)]
    /\ UNCHANGED <<subVars, routeVars, peerVars, lifeVars, it>>

\* A node that subscribed to nothing, or to both topics.
IngestTables ==
    {[subscribers |-> EmptyMap, topics |-> EmptyMap],
     SubscribeTables(SubscribeTables(EmptyMap, EmptyMap, "news", "s1").subscribers,
                     SubscribeTables(EmptyMap, EmptyMap, "news", "s1").topics,
                     "rare", "s2")}

IngestFilters == {newFilter, newFilterFromDigests({hash160("rare")})}

IngestUpdates ==
    [peer : Peers, index : {0, FiltersDepth - 1}, filter : IngestFilters, isNil : {FALSE}]

IngestInit ==
    /\ subscribers = EmptyMap
    /\ topics = EmptyMap
    /\ caller = NoCall
    /\ history = {}
    /\ peers = EmptyMap
    /\ connected \in {{"P1"}, Peers}
    /\ cfg = [DefaultEventTTL |-> MaxTTL]
    /\ logger \in {"nil", "read"}
    /\ call = NoPending
    /\ rt = <<>>
    /\ now = 0
    /\ ut = <<>>
    /\ swept = NoSweep
    /\ crashed = FALSE
    /\ net = "down"
    /\ loops = NoLoops
    /\ stopPc = "idle"
    /\ inflight = NoTasks
    /\ it = <<>>
    /\ su = NoSend

IngestNext ==
    \/ \E u \in IngestUpdates : IngestDispatch(u)
    \/ \E u \in IngestUpdates : IngestDrop(u)
    \/ \E k \in 1..MaxIngest : IngestCheck(k)
    \/ \E k \in 1..MaxIngest : IngestInstall(k)
    \/ IngestSweep
    \/ Tick
    \/ \E p \in Peers : Connect(p)
    \/ \E p \in Peers : Disconnect(p)

SpecIngest == IngestInit /\ [][IngestNext]_vars

---------------------------------------------------------------------------
(* Forwarding: one event at a time is routed against a peer filter table,   *)
(* a set of connected peers and a default ttl drawn at the start, while     *)
(* peers connect and disconnect.                                            *)

MaxForward == 1                     \* route tasks of one behaviour

\* Scenario S5: P1's level 0 holds "rare" and P1's own id, P2's filters are
\* empty.
TableS5 ==
    [p \in Peers |-> IF p = "P1" THEN DataWith(0, {hash160("rare"), hash160("P1")})
                     ELSE EmptyData]

\* "rare" is one hop behind P2 and two hops behind P1.
TableNear ==
    [p \in Peers |-> IF p = "P1" THEN DataWith(1, {hash160("rare")})
                     ELSE DataWith(0, {hash160("rare")})]

\* "rare" shows in the top level of P1 only.
TableTop ==
    [p \in Peers |-> IF p = "P1" THEN DataWith(FiltersDepth - 1, {hash160("rare")})
                     ELSE EmptyData]

ForwardTables == {EmptyMap, TableS4, TableS5, TableNear, TableTop}

ForwardEvents ==
    [topicDigest : {hash160("news"), hash160("rare")}, message : Msgs,
     ttl : 0..MaxTTL, publishers : {<<>>, <<"P1">>}]

ForwardInit ==
    /\ \E tb \in {[subscribers |-> EmptyMap, topics |-> EmptyMap],
                  SubscribeTables(EmptyMap, EmptyMap, "news", "s1")} :
          subscribers = tb.subscribers /\ topics = tb.topics
    /\ caller = NoCall
    /\ history = {}
    /\ peers \in ForwardTables
    /\ connected \in SUBSET Peers
    /\ cfg \in [DefaultEventTTL : 0..MaxTTL]
    /\ logger \in {"nil", "read"}
    /\ call = NoPending
    /\ rt = <<>>
    /\ now = 0
    /\ ut = <<>>
    /\ swept = NoSweep
    /\ crashed = FALSE
    /\ net = "down"
    /\ loops = NoLoops
    /\ stopPc = "idle"
    /\ inflight = NoTasks
    /\ it = <<>>
    /\ su = NoSend

ForwardNext ==
    \/ \E t \in Topics, m \in Msgs : Len(rt) < MaxForward /\ Publish(t, m)
    \/ \E e \in ForwardEvents : Len(rt) < MaxForward /\ DispatchEvent(e)
    \/ \E r \in 1..MaxForward : r \in DOMAIN rt /\ RouteStep(r)
    \/ \E p \in Peers : Connect(p)
    \/ \E p \in Peers : Disconnect(p)

SpecForward == ForwardInit /\ [][ForwardNext]_vars

---------------------------------------------------------------------------
(* Propagation: sendUpdates holds the read lock from its first read to its  *)
(* last send, while update tasks, Subscribe and Unsubscribe wait for the    *)
(* write lock.  One propagation tick is followed.                           *)

MaxWriters == 1                     \* processUpdate tasks next to sendUpdates

PropagateTables == {EmptyMap, TableS5, TableNear, MapDelete(TableTop, "P2")}

PropagateInit ==
    /\ \E tb \in IngestTables : subscribers = tb.subscribers /\ topics = tb.topics
    /\ caller = NoCall
    /\ history = {}
    /\ peers \in PropagateTables
    /\ connected \in {{"P1"}, Peers}
    /\ cfg = [DefaultEventTTL |-> MaxTTL]
    /\ logger = "nil"
    /\ call = NoPending
    /\ rt = <<>>
    /\ now = 0
    /\ ut = <<>>
    /\ swept = NoSweep
    /\ crashed = FALSE
    /\ net = "down"
    /\ loops = NoLoops
    /\ stopPc = "idle"
    /\ inflight = NoTasks
    /\ it = <<>>
    /\ su = NoSend

PropagateNext ==
    \/ SendUpdatesRLock
    \/ SendUpdatesRun
    \/ \E u \in IngestUpdates : Len(it) < MaxWriters /\ IngestDispatch(u)
    \/ \E k \in 1..MaxWriters : IngestCheck(k)
    \/ \E k \in 1..MaxWriters : IngestInstall(k)
    \/ \E t \in Topics : /\ LockFree(SendReaders)
                          /\ hash160(t) \notin DOMAIN subscribers
                          /\ Subscribe(t, "s1")
    \/ \E t \in Topics : LockFree(SendReaders) /\ Unsubscribe(t, Nil)
    \/ \E p \in Peers : Connect(p)
    \/ \E p \in Peers : Disconnect(p)

SpecPropagate == PropagateInit /\ [][PropagateNext]_vars

---------------------------------------------------------------------------
(* Delivery sinks: events for "news" are routed on a node where a well      *)
(* behaved, a blocking or a re-entrant sink is subscribed to it, with the    *)
(* taps out of the way (no Logger, or one whose channels are read).         *)

SinkSequences == {<<"s1">>, <<"s1", "blk">>, <<"re">>}

SinkInit ==
    /\ \E seq \in SinkSequences :
          /\ subscribers = MapPut(EmptyMap, hash160("news"), seq)
          /\ topics = MapPut(EmptyMap, hash160("news"), "news")
    /\ caller = NoCall
    /\ history = {}
    /\ peers = TableS4
    /\ connected = Peers
    /\ cfg = [DefaultEventTTL |-> MaxTTL]
    /\ logger \in {"nil", "read"}
    /\ call = NoPending
    /\ rt = <<>>
    /\ now = 0
    /\ ut = <<>>
    /\ swept = NoSweep
    /\ crashed = FALSE
    /\ net = "down"
    /\ loops = NoLoops
    /\ stopPc = "idle"
    /\ inflight = NoTasks
    /\ it = <<>>
    /\ su = NoSend

SinkNext ==
    \/ \E t \in Topics, m \in Msgs : Publish(t, m)
    \/ \E r \in 1..MaxRoutes : r \in DOMAIN rt /\ RouteStep(r)
    \/ \E r \in 1..MaxRoutes : r \in DOMAIN rt /\ RouteSinkWrite(r)
    \/ \E t \in RouteTopics, s \in Sinks : SubscribeCall(t, s)
    \/ \E t \in RouteTopics, s \in Sinks : UnsubscribeCall(t, s)
    \/ LockedCall

SpecSink == SinkInit /\ [][SinkNext]_vars

\* The scheduling of FairSpecRoute; a route task at n.deliver does enter the
\* sink's Write.
FairSpecSink ==
    /\ SpecSink
    /\ RouteFairness
    /\ \A r \in 1..MaxRoutes : WF_vars(r \in DOMAIN rt /\ RouteSinkWrite(r))

SubInit ==
    /\ subscribers = EmptyMap
    /\ topics = EmptyMap
    /\ caller = NoCall
    /\ history = {}
    /\ peers = EmptyMap
    /\ connected = {}
    /\ cfg = [DefaultEventTTL |-> 1]
    /\ logger = "nil"
    /\ call = NoPending
    /\ rt = <<>>
    /\ now = 0
    /\ ut = <<>>
    /\ swept = NoSweep
    /\ crashed = FALSE
    /\ net = "down"
    /\ loops = NoLoops
    /\ stopPc = "idle"
    /\ inflight = NoTasks
    /\ it = <<>>
    /\ su = NoSend

SubNext ==
    \/ \E t \in Topics, s \in Receivers : Subscribe(t, s)
    \/ \E t \in Topics, s \in Receivers : Unsubscribe(t, s)

SpecSub == SubInit /\ [][SubNext]_vars

---------------------------------------------------------------------------
(* Routing: taps, duplicates, subscribe-then-publish, the local match.      *)

\* C1: a slow or absent tap receiver never blocks routing: every route task
\* spawned finishes its decision and releases the read lock, and a Subscribe
\* or Unsubscribe waiting for the lock returns.
C1_TapNeverBlocksRouting ==
    /\ \A r \in 1..MaxRoutes :
          (r \in DOMAIN rt) ~> (r \in DOMAIN rt /\ rt[r].pc = "done")
    /\ (call # NoPending) ~> (call = NoPending)

\* With a Logger whose channels are read, or with none, routing does finish.
RoutingFinishesWhenTapsAreRead == (logger # "unread") => C1_TapNeverBlocksRouting

\* The tasks that routed the same (topic, payload) as task r.
SameItem(r) == {q \in DOMAIN rt : witnessItem(rt[q].e) = witnessItem(rt[r].e)}

RECURSIVE SumOver(_, _)
SumOver(f, S) ==
    IF S = {} THEN 0
    ELSE LET x == CHOOSE y \in S : TRUE IN f[x] + SumOver(f, S \ {x})

\* C2: of the route tasks for one (topic, payload), at most one takes the
\* local match, so each local sink is written that payload at most once per
\* registration: a second Publish of the same pair delivers nothing.
C2_AtMostOneDelivery ==
    \A r \in DOMAIN rt :
        /\ Cardinality({q \in SameItem(r) : rt[q].branch = "local"}) <= 1
        /\ \A s \in Sinks :
              LET writes == [q \in SameItem(r) |-> Count(rt[q].written, s)]
              IN  \/ SumOver(writes, SameItem(r)) = 0
                  \/ \E q \in SameItem(r) :
                        SumOver(writes, SameItem(r)) = Count(rt[q].receivers, s)

\* Two Publish calls of one pair have both been routed: one was delivered to
\* a subscribed sink, the other was dropped as a duplicate.
C2_Witness ==
    /\ Len(rt) = 2
    /\ rt[1].origin = "publish" /\ rt[2].origin = "publish"
    /\ witnessItem(rt[1].e) = witnessItem(rt[2].e)
    /\ rt[1].pc = "done" /\ rt[2].pc = "done"
    /\ \E r \in 1..2 : rt[r].branch = "local" /\ rt[r].written # <<>>
    /\ \E r \in 1..2 : rt[r].branch = "duplicate" /\ rt[r].written = <<>>

\* C7: when sink s is subscribed to t before Publish(t, m) is called, no
\* Unsubscribe for t intervenes and (t, m) was not witnessed before, the route
\* task of that Publish writes m to s.
C7_SubscribeThenPublish ==
    \A r \in 1..MaxRoutes : \A s \in Sinks :
        (r \in DOMAIN rt /\ rt[r].origin = "publish" /\ s \in rt[r].hadSub)
            ~> (/\ r \in DOMAIN rt
                /\ \/ rt[r].unsub
                   \/ rt[r].branch = "duplicate"
                   \/ s \in Range(rt[r].written))

\* With a Logger whose channels are read, or with none, the write does happen.
PublishReachesSinkWhenTapsAreRead == (logger # "unread") => C7_SubscribeThenPublish

TapCount(taps, name) == Cardinality({i \in DOMAIN taps : taps[i][1] = name})

TapTargets(taps, name) == {taps[i][2] : i \in {j \in DOMAIN taps : taps[j][1] = name}}

\* A task that holds the read lock after a local match holds the sink sequence
\* of its topic; a task that has finished one has written the payload once to
\* every sink of that sequence, in order, tapped EventsDeliver once (when a
\* Logger is installed), appended the node's id once to the publishers and
\* left the ttl alone.  No other task writes to a sink.
LocalMatchState ==
    \A r \in DOMAIN rt :
        /\ rt[r].pc \in {"eventDeliver", "deliver"} =>
              /\ rt[r].branch = "local"
              /\ rt[r].e.topicDigest \in DOMAIN subscribers
              /\ rt[r].receivers = subscribers[rt[r].e.topicDigest]
              /\ rt[r].written = <<>> /\ rt[r].sentTo = {}
        /\ rt[r].pc = "done" /\ rt[r].branch = "local" =>
              /\ rt[r].written = rt[r].receivers
              /\ rt[r].receivers # <<>>
              /\ TapCount(rt[r].taps, "EventsDeliver") = IF logger = "nil" THEN 0 ELSE 1
              /\ rt[r].e.publishers = Append(rt[r].pubs0, SelfId)
              /\ rt[r].e.ttl = rt[r].ttl0
              /\ TapTargets(rt[r].taps, "EventsRouteDirect") =
                    IF logger = "nil" THEN {} ELSE rt[r].sentTo
        /\ rt[r].branch # "local" => rt[r].written = <<>>

\* The step that ends a local match sends the event to the peers connected at
\* that step, all of them and no other; a non-duplicate event whose topic is
\* subscribed takes the local match.
LocalMatchStep ==
    \A r \in 1..MaxRoutes :
        /\ (r \in DOMAIN rt /\ rt[r].pc = "deliver" /\ rt'[r].pc = "done")
               => rt'[r].sentTo = connected
        /\ (r \in DOMAIN rt /\ rt[r].pc = "witness" /\ rt'[r].pc # "witness"
              /\ witnessItem(rt[r].e) \notin history
              /\ rt[r].e.topicDigest \in DOMAIN subscribers)
               => rt'[r].branch = "local"

\* C8: the local match of a non-duplicate event whose topic is subscribed:
\* one write per registered sink whatever the writes return, one EventsDeliver
\* tap, the node's id appended once to the publishers, the ttl unchanged, and
\* the event sent to every connected neighbor and to no one else.
C8_LocalMatch == []LocalMatchState /\ [][LocalMatchStep]_vars

\* A local match has finished with two sinks, the failing one first, both
\* written, and the event sent to both connected peers.
C8_Witness ==
    \E r \in DOMAIN rt :
        /\ rt[r].pc = "done" /\ rt[r].branch = "local"
        /\ rt[r].receivers = <<"s2", "s1">>
        /\ rt[r].written = <<"s2", "s1">>
        /\ rt[r].sentTo = Peers
        /\ rt[r].e.publishers = <<"P1", SelfId>>

---------------------------------------------------------------------------
(* The subscription table.                                                  *)

\* C4: the subscription table and the topic table have the same keys, each
\* key's topic bytes are the bytes it is the digest of, and no key maps to an
\* empty sink sequence.
C4_TablesAgree ==
    /\ DOMAIN subscribers = DOMAIN topics
    /\ \A d \in DOMAIN subscribers : Len(subscribers[d]) > 0
    /\ \A d \in DOMAIN topics : hash160(topics[d]) = d

\* The last sink of a topic has been unsubscribed, which dropped the topic,
\* while the other topic stays subscribed with the null sink in its sequence.
C4_Witness ==
    /\ caller.phase = "unsubscribed"
    /\ caller.sink # Nil
    /\ hash160(caller.topic) \notin DOMAIN subscribers
    /\ \E d \in DOMAIN subscribers : Nil \in Range(subscribers[d])

\* C5 as the spec states it: Subscribers(t) contains s after Subscribe(t, s)
\* and does not contain s after the matching Unsubscribe(t, s), whatever the
\* table held before.
C5_Original ==
    /\ caller.phase = "subscribed" =>
          caller.sink \in Range(Subscribers(caller.topic))
    /\ caller.phase = "unsubscribed" =>
          caller.sink \notin Range(Subscribers(caller.topic))

\* C5, amended: Subscribers(t) contains s after Subscribe(t, s), as its last
\* element.  The matching Unsubscribe(t, s) removes one registration of a
\* non-null s, so s is registered as often as before the Subscribe: not at
\* all when it was not registered before.  A null s removes the whole topic.
C5_SubscribeThenUnsubscribe ==
    /\ caller.phase = "subscribed" =>
          /\ Subscribers(caller.topic) # <<>>
          /\ Subscribers(caller.topic)[Len(Subscribers(caller.topic))] = caller.sink
          /\ Count(Subscribers(caller.topic), caller.sink) = caller.n0 + 1
    /\ caller.phase = "unsubscribed" =>
          IF caller.sink = Nil
          THEN Subscribers(caller.topic) = <<>>
          ELSE /\ Count(Subscribers(caller.topic), caller.sink) = caller.n0
               /\ caller.n0 = 0 => caller.sink \notin Range(Subscribers(caller.topic))

\* A sink that was registered once before the pair is still registered once
\* after it.
C5_Witness ==
    /\ caller.phase = "unsubscribed"
    /\ caller.sink # Nil
    /\ caller.n0 = 1
    /\ caller.sink \in Range(Subscribers(caller.topic))

---------------------------------------------------------------------------
(* The peer filter table.                                                   *)

\* C9: a sweep removes exactly the expired entries: the keys left after
\* removeExpiredPeers are the keys before it less the entries for which
\* peerDataExpired held.
C9_SweepRemovesExactlyExpired ==
    swept.ran => swept.after = swept.before \ swept.expired

\* C10: every peer entry has D filters of M/8 bytes and D timestamps, its top
\* level was never written, and no update was written outside an entry.
C10_EntriesWellFormed ==
    /\ ~crashed
    /\ \A p \in DOMAIN peers :
          /\ p \in Peers
          /\ Len(peers[p].filters) = FiltersDepth
          /\ Len(peers[p].timestamps) = FiltersDepth
          /\ \A i \in 1..FiltersDepth : Len(peers[p].filters[i]) = FiltersM \div 8
          /\ peers[p].filters[FiltersDepth] = newFilter
          /\ peers[p].timestamps[FiltersDepth] = 0
    /\ \A k \in DOMAIN ut : validUpdate(ut[k].u)

\* Both levels below the top of P1's entry hold a filter a peer sent, the
\* second one written later than the first.
C10_Witness ==
    /\ "P1" \in DOMAIN peers
    /\ peers["P1"].filters[1] = newFilterFromDigests({hash160("rare")})
    /\ peers["P1"].filters[FiltersDepth - 1] = newFilterFromDigests({hash160("rare")})
    /\ peers["P1"].timestamps[FiltersDepth - 1] > peers["P1"].timestamps[1]

---------------------------------------------------------------------------
(* Start and Stop.                                                          *)

Stopped == stopPc = "returned"

\* C3: Stop, called on a started node, returns; once it has returned the
\* dispatcher, the propagator and the sweeper have all ended, and until the
\* node is started again nothing new is spawned: no update or event is taken,
\* no propagation tick and no sweep is scheduled.  Tasks in flight go on.
C3_StopEndsTheLoops ==
    /\ [](Stopped => \A l \in LoopNames : loops[l] = "ended")
    /\ [][(Stopped /\ Stopped') =>
            \A t \in TaskNames : inflight'[t] <= inflight[t]]_vars
    /\ (stopPc = "stopDispatcher") ~> Stopped

\* Stop has returned while a processUpdate task and a sweep it did not wait
\* for are still in flight.
C3_Witness ==
    /\ Stopped
    /\ net = "down"
    /\ inflight["processUpdate"] > 0
    /\ inflight["removeExpiredPeers"] > 0

---------------------------------------------------------------------------
(* Ingestion: the connectivity check, the order of writes.                  *)

RejectStep(k) ==
    /\ peers' = peers
    /\ it'[k].pc = "done"
    /\ it'[k].at = 0
    /\ TapCount(it'[k].taps, "UpdatesSuccess") = 0
    /\ logger # "nil" =>
          /\ TapCount(it'[k].taps, "UpdatesFail") = 1
          /\ TapTargets(it'[k].taps, "UpdatesFail") = {it[k].u.peer}

\* The entry of p is created or rewritten by this step.
EntryWritten(p) ==
    /\ p \in DOMAIN peers'
    /\ EntryOf(peers, p) # peers'[p]

C12_BoundedByConnectivity == Cardinality(DOMAIN peers) <= Cardinality(connected)

---------------------------------------------------------------------------
(* Forwarding.                                                              *)

\* The tasks that went past the duplicate check and the local match and
\* have finished.
Decayed == {r \in DOMAIN rt : rt[r].pc = "done" /\
                              rt[r].branch \in {"ttl", "well", "random", "none"}}

\* C13: an event that is no duplicate and has no local match leaves with its
\* ttl one below the ttl it came with, whether it came from the overlay or
\* from Publish; when that is 0 it is dropped with one EventsDropTTL tap and
\* sent to nobody; when it is forwarded its ttl is at least 1 and below the
\* ttl it came with.  (The decrement is the unsigned one.)
C13_TTLDecay ==
    \A r \in Decayed :
        /\ rt[r].e.ttl = (rt[r].ttl0 + Uint - 1) % Uint
        /\ rt[r].branch = "ttl" <=> rt[r].e.ttl = 0
        /\ rt[r].branch = "ttl" =>
              /\ rt[r].sentTo = {}
              /\ logger # "nil" => TapCount(rt[r].taps, "EventsDropTTL") = 1
        /\ rt[r].branch \in {"well", "random"} =>
              /\ rt[r].e.ttl >= 1
              /\ rt[r].e.ttl < rt[r].ttl0

\* The levels (1 is level 0) at which some peer's filter holds the topic of
\* e and none of its publishers.
QualifyingLevels(e) ==
    {i \in 1..FiltersDepth :
        \E p \in DOMAIN peers :
            /\ filterContainsDigest(peers[p].filters[i], e.topicDigest)
            /\ \A j \in DOMAIN e.publishers :
                  ~filterContainsDigest(peers[p].filters[i], hash160(e.publishers[j]))}

QualifiesAt(p, i, e) ==
    /\ filterContainsDigest(peers[p].filters[i], e.topicDigest)
    /\ \A j \in DOMAIN e.publishers :
          ~filterContainsDigest(peers[p].filters[i], hash160(e.publishers[j]))

\* C14: an event that is no duplicate, has no local match and survives the
\* ttl decay, and for which some (level, peer) qualifies, is sent to exactly
\* one peer by the well-informed branch, with one EventsRouteWell tap and no
\* EventsRouteRandom tap, and that peer qualifies at the lowest level at which
\* any peer qualifies.
C14_WellInformed ==
    \A r \in Decayed :
        (rt[r].branch # "ttl" /\ QualifyingLevels(rt[r].e) # {}) =>
            /\ rt[r].branch = "well"
            /\ Cardinality(rt[r].sentTo) = 1
            /\ \A p \in rt[r].sentTo :
                  /\ p \in DOMAIN peers
                  /\ \E i \in QualifyingLevels(rt[r].e) :
                        /\ \A k \in QualifyingLevels(rt[r].e) : i <= k
                        /\ QualifiesAt(p, i, rt[r].e)
            /\ logger # "nil" =>
                  /\ TapCount(rt[r].taps, "EventsRouteWell") = 1
                  /\ TapTargets(rt[r].taps, "EventsRouteWell") = rt[r].sentTo
            /\ TapCount(rt[r].taps, "EventsRouteRandom") = 0

\* "rare" is one hop behind P2 and two hops behind P1: the event went to P2.
C14_Witness ==
    /\ peers = TableNear
    /\ \E r \in Decayed :
        /\ rt[r].branch = "well"
        /\ rt[r].e.topicDigest = hash160("rare")
        /\ rt[r].sentTo = {"P2"}
        /\ rt[r].e.ttl = MaxTTL - 1

\* The route task of scenario S5 is about to decide: P1 and P2 connected,
\* P1's level 0 holds the topic and P1's id, the event names P1 as publisher,
\* nobody subscribed to the topic here, the event is no duplicate and its
\* ttl survives.
S5Decides(r) ==
    /\ r \in DOMAIN rt
    /\ rt[r].pc = "witness" /\ rt'[r].pc = "done"
    /\ peers = TableS5
    /\ connected = Peers
    /\ rt[r].e.topicDigest = hash160("rare")
    /\ rt[r].e.publishers = <<"P1">>
    /\ rt[r].e.ttl > 1
    /\ witnessItem(rt[r].e) \notin history

\* C15 as the spec states it: in scenario S5 the node does not forward the
\* event to P1; it falls through to the random fallback.
C15_Original ==
    [][\A r \in 1..MaxForward :
          S5Decides(r) => rt'[r].branch = "random" /\ "P1" \notin rt'[r].sentTo]_vars

\* C15: in scenario S5 the well-informed branch does not forward the event
\* (no EventsRouteWell tap); the event falls through to the random fallback,
\* which sends it to one connected peer, P1 or P2.
C15_NegativeRoute ==
    [][\A r \in 1..MaxForward :
          S5Decides(r) =>
              /\ rt'[r].branch = "random"
              /\ TapCount(rt'[r].taps, "EventsRouteWell") = 0
              /\ Cardinality(rt'[r].sentTo) = 1
              /\ rt'[r].sentTo \subseteq connected
              /\ logger # "nil" =>
                    /\ TapCount(rt'[r].taps, "EventsRouteRandom") = 1
                    /\ TapTargets(rt'[r].taps, "EventsRouteRandom") = rt'[r].sentTo]_vars

\* Scenario S5 has run with both peers still connected: the random fallback
\* sent the event to P2.
C15_Witness ==
    /\ peers = TableS5
    /\ connected = Peers
    /\ \E r \in Decayed :
        /\ rt[r].branch = "random"
        /\ rt[r].e.topicDigest = hash160("rare")
        /\ rt[r].e.publishers = <<"P1">>
        /\ rt[r].sentTo = {"P2"}

---------------------------------------------------------------------------
(* Propagation.                                                             *)

SentTo(id) == {s \in su.sent : s[1] = id}

\* The bitwise OR of byte j of level `level` (1 is level 0) over the table.
OrOfLevel(table, level, j) == UNION {table[p].filters[level][j] : p \in DOMAIN table}

\* C16: a finished sendUpdates has sent every peer connected at the sends
\* exactly D-1 updates, one for each index 0..D-2, and nothing to anyone else;
\* the filter of index 0 holds the digest of every topic subscribed when the
\* read lock was taken and the digest of the node's own id; the filter of an
\* index i >= 1 is, byte by byte, the OR of the level i-1 filters of the
\* entries the table held when the read lock was taken.
C16_Propagation ==
    su.pc = "done" =>
        /\ \A s \in su.sent : s[1] \in su.conn
        /\ \A id \in su.conn :
              /\ Cardinality(SentTo(id)) = FiltersDepth - 1
              /\ {s[2] : s \in SentTo(id)} = 0..(FiltersDepth - 2)
        /\ \A s \in su.sent :
              IF s[2] = 0
              THEN /\ \A d \in su.subs : filterContainsDigest(s[3], d)
                   /\ filterContainsDigest(s[3], hash160(SelfId))
              ELSE /\ Len(s[3]) = FilterBytes
                   /\ \A j \in 1..FilterBytes : s[3][j] = OrOfLevel(su.table, s[2], j)

\* One tick with both topics subscribed, both peers connected and "rare" in
\* P2's level 0: the level-1 filter sent holds "rare".
C16_Witness ==
    /\ su.pc = "done"
    /\ su.conn = Peers
    /\ su.subs = {hash160("news"), hash160("rare")}
    /\ su.table = TableNear
    /\ \E s \in su.sent : s[2] = 1 /\ filterContainsDigest(s[3], hash160("rare"))

---------------------------------------------------------------------------
(* Ingesting twice, ingesting in order.                                     *)

\* Task k ingested the update task j had ingested, right after it: the same
\* peer, level and bytes, the entry untouched in between.
TwiceInARow(j, k) ==
    /\ j \in Installed /\ k \in Installed
    /\ it[j].u = it[k].u
    /\ it[k].at = it[j].at + 1
    /\ it[k].before = it[j].after

\* C17 as the spec states it: ingesting u twice in a row leaves the peer's
\* entry, filters and timestamps, as it was after ingesting u once.
C17_Original ==
    \A j, k \in DOMAIN it : TwiceInARow(j, k) => it[k].after = it[j].after

\* C17: ingesting u twice in a row leaves the D filters of the entry and the
\* timestamps of the other levels as they were after ingesting u once; the
\* timestamp of u's level is the clock of the second ingest, so the entry is
\* the same only when the clock has not moved.
C17_IdempotentFilters ==
    \A j, k \in DOMAIN it :
        TwiceInARow(j, k) =>
            /\ it[k].after.filters = it[j].after.filters
            /\ \A i \in 1..FiltersDepth :
                  it[k].after.timestamps[i] =
                      IF i = it[k].u.index + 1 THEN it[k].t
                      ELSE it[j].after.timestamps[i]
            /\ it[k].t >= it[j].t
            /\ it[k].t = it[j].t => it[k].after = it[j].after

\* The same update was ingested twice in a row with the clock moving in
\* between: the filters agree, the timestamp of the level does not.
C17_Witness ==
    \E j, k \in DOMAIN it :
        /\ TwiceInARow(j, k)
        /\ it[k].t > it[j].t
        /\ it[k].after.filters = it[j].after.filters
        /\ it[k].after # it[j].after

\* The dispatcher received the update of task j, then the update of task k
\* (j < k), both for the same peer and level; both tasks have finished their
\* writes, one right after the other, and the entry is as the later write
\* left it.
BothIngested(j, k) ==
    /\ j < k
    /\ j \in Installed /\ k \in Installed
    /\ it[j].u.peer = it[k].u.peer /\ it[j].u.index = it[k].u.index
    /\ \/ it[k].at = it[j].at + 1 /\ it[k].before = it[j].after
                                  /\ EntryOf(peers, it[k].u.peer) = it[k].after
       \/ it[j].at = it[k].at + 1 /\ it[j].before = it[k].after
                                  /\ EntryOf(peers, it[j].u.peer) = it[j].after

\* C19: when the dispatcher received u1 and then u2 for the same (peer,
\* level) and both ingestion tasks have finished, the entry's filter of that
\* level is the bytes of u2.
C19_UpdatesInOrder ==
    \A j, k \in DOMAIN it :
        BothIngested(j, k) =>
            peers[it[k].u.peer].filters[it[k].u.index + 1] = it[k].u.filter

\* C20: whatever branch forwards the event (direct flood, well-informed,
\* random), every peer it is sent to is one the overlay reports as connected
\* when route decides.
C20_SendsToConnectedOnly ==
    [][\A r \in 1..MaxForward :
          (r \in DOMAIN rt /\ rt[r].pc # "done" /\ rt'[r].pc = "done") =>
              rt'[r].sentTo \subseteq connected]_vars

---------------------------------------------------------------------------
(* Delivery sinks.                                                          *)

\* C18: routing an event to a subscribed sink never leaves the lock held for
\* ever: every route task that holds the read lock releases it, and every
\* Subscribe or Unsubscribe that waits for the write lock gets it.
C18_LockNotHeldForever ==
    /\ \A r \in 1..MaxRoutes : (r \in Readers) ~> (r \notin Readers)
    /\ (call # NoPending) ~> (call = NoPending)

===========================================================================
